---- MODULE Spec2Model ----
(***************************************************************************)
(* Order-lifecycle procedures of src/api_db.py:                            *)
(*   BinanceExchange.order_wait, BinanceExchange.set_stop,                 *)
(*   sfox_exchange.order_wait, sfox_exchange.order_adapting_price.         *)
(* One lifecycle (one call of one procedure) runs against a venue whose    *)
(* orders change status on their own, and against a wall clock that        *)
(* advances on its own: a gateway call, and the return from it, take time. *)
(* Prices are exact rationals; the rounding of Python floats is left out.  *)
(***************************************************************************)
EXTENDS Integers, Sequences, FiniteSets, TLC

(* ------------------------------ bounds -------------------------------- *)

MaxTime == 4        \* the clock runs from 0 to MaxTime seconds
MaxWait == 2        \* wait_time is drawn from 0..MaxWait
MaxPrice == 2       \* price and stop_price are drawn from 1..MaxPrice
MaxAdjNum == 3      \* adjustments are drawn from {0, 1/2, .., MaxAdjNum/2}
MaxAttempts == 3    \* createOrder attempts of one set_stop call
MaxDen == 8         \* largest denominator of a price that is still adjusted,
                    \* where the attempts are not counted
MaxMarket == 5      \* the venue's market price or fill threshold, from
                    \* {1/2, 1, .., MaxMarket/2}

(* -------------------------- exact arithmetic --------------------------- *)

RECURSIVE GCD(_, _)
GCD(a, b) == IF b = 0 THEN a ELSE GCD(b, a % b)

Abs(x) == IF x < 0 THEN -x ELSE x

\* The rational n/d in lowest terms, d > 0.
Rat(n, d) ==
    LET g == GCD(Abs(n), Abs(d))
        s == IF d < 0 THEN -1 ELSE 1
    IN  [n |-> s * (n \div g), d |-> s * (d \div g)]

RMul(x, y) == Rat(x.n * y.n, x.d * y.d)
RAdd(x, y) == Rat(x.n * y.d + y.n * x.d, x.d * y.d)
RSub(x, y) == Rat(x.n * y.d - y.n * x.d, x.d * y.d)
RLeq(x, y) == x.n * y.d <= y.n * x.d
RLt(x, y) == x.n * y.d < y.n * x.d
ROne == Rat(1, 1)
RZero == Rat(0, 1)

(* ------------------------------- inputs -------------------------------- *)

Procs == {"binance.order_wait", "binance.set_stop",
          "sfox.order_wait", "sfox.order_adapting_price"}

Prices == {Rat(p, 1) : p \in 1..MaxPrice}
Adjustments == {Rat(a, 2) : a \in 0..MaxAdjNum}
WaitTimes == 0..MaxWait
\* "c" cancels, "desc" adapts the price, anything else (here "k") continues.
Cancellations == {"c", "desc", "k"}
SfoxSides == {"buy", "sell"}
\* set_stop's default side is "BUY"; ccxt takes the side in either case.
StopSides == {"buy", "sell", "BUY"}

(* -------------------------------- state -------------------------------- *)

VARIABLES
    proc,               \* the procedure this lifecycle runs
    pc,                 \* the controller's position in it
    exc,                \* the exception that ended it, "none" otherwise
    result,             \* the value it returned
    side, wait_time, cancellation, price, percent_adjustment, cancel_id,
    price_arg,          \* the price the procedure was called with
    stop_price, adjustment, multiplier,
    order, new_order, query, start_time,
    now,                \* the wall clock, in whole seconds
    venue,              \* venue[id]: the status of order id at the venue
    calls,              \* the gateway calls made so far, in order
    fills,              \* the venue's fills so far, in order
    polls,              \* the polls order_wait has evaluated so far
    unbounded,          \* TRUE: the clock runs past MaxTime and no history is kept
    venue_rule,         \* "any": the venue acts freely; "threshold": by its market
    threshold,          \* the market price (set_stop) or fill threshold of the venue
    peer                \* progress of another lifecycle on the same thread

vars == <<proc, pc, exc, result, side, wait_time, cancellation, price,
          price_arg, percent_adjustment, cancel_id, stop_price, adjustment, multiplier,
          order, new_order, query, start_time, now, venue, calls, fills, polls,
          unbounded, venue_rule, threshold, peer>>

args == <<proc, side, wait_time, cancellation, percent_adjustment, adjustment,
          price_arg, unbounded, venue_rule, threshold>>
locals == <<price, cancel_id, stop_price, multiplier, order, new_order, query,
            start_time>>
\* the locals the clock does not move
frame == <<price, cancel_id, stop_price, multiplier, order, new_order, query>>

(* ------------------------- venue and gateway --------------------------- *)

Exchange == IF proc \in {"binance.order_wait", "binance.set_stop"}
            THEN "binance" ELSE "sfox"

\* The status of an order the venue has accepted and not yet settled.
OpenStatus == IF Exchange = "binance" THEN "NEW" ELSE "Started"
\* Statuses the controllers do not know; the order is still live under them.
UnknownStatus == IF Exchange = "binance" THEN "PARTIALLY_FILLED" ELSE "Unknown"
LiveStatuses == {OpenStatus, UnknownStatus}
\* What the venue reports for a filled order.
FillStatuses == IF Exchange = "binance" THEN {"FILLED"} ELSE {"Filled", "Done"}
CanceledStatus == IF Exchange = "binance" THEN "CANCELED" ELSE "Canceled"
AllFillStatuses == {"FILLED", "Filled", "Done"}

\* A JSON body without the key asked of it.
MissingKey == "<missing>"
NoId == 0
NoResponse == [id |-> NoId, status |-> "none"]
ErrorBody == [id |-> NoId, status |-> MissingKey]

Call(op, id, p, res, status) ==
    [op |-> op, id |-> id, price |-> p, res |-> res, status |-> status]

\* The history with one more entry; none is kept where the run is unbounded.
Logged(history, entry) == IF unbounded THEN history ELSE Append(history, entry)

CallsOf(op) == SelectSeq(calls, LAMBDA c : c.op = op)
NumCalls(op) == Len(CallsOf(op))
QueriesServed(id) ==
    Len(SelectSeq(calls, LAMBDA c : c.op = "query" /\ c.id = id /\ c.res = "ok"))

\* The venue's side of a cancel: an open order is cancelled, any other is left.
VenueCancel(v, id) ==
    IF id \in DOMAIN v /\ v[id] \in LiveStatuses
    THEN [v EXCEPT ![id] = CanceledStatus] ELSE v

\* timedelta.seconds: the seconds within the day.
SecondsPerDay == 86400
Seconds(delta) == delta % SecondsPerDay

\* The venue takes the side in either case.
IsBuySide(s) == s \in {"buy", "BUY"}

\* A limit order the venue fills at once: a buy at or above its threshold, a
\* sell at or below it.
Marketable(s, p) == IF s = "buy" THEN RLeq(threshold, p) ELSE RLeq(p, threshold)

\* The venue's book with one more order. Where the run is unbounded the book
\* keeps that order alone: the ones before it are not asked about again.
Accepted(v, status) == IF unbounded THEN <<status>> ELSE Append(v, status)

\* The status of an order just accepted.
NewOrderStatus(s, p) ==
    IF venue_rule = "threshold" /\ Marketable(s, p) THEN "Filled" ELSE OpenStatus

\* A stop order that would execute at once: a buy stop at or below the market,
\* a sell stop at or above it.
ImmediatelyFillable(s, stop) ==
    IF IsBuySide(s) THEN RLeq(stop, threshold) ELSE RLeq(threshold, stop)

Ended == pc \in {"returned", "raised"}

\* A wait of d seconds can be modelled: it ends by MaxTime, or the run is unbounded.
CanWait(d) == now + d <= MaxTime \/ unbounded

\* The clock after d more seconds. Past MaxTime the clock stays and start_time
\* moves back instead, until the elapsed time exceeds every wait_time.
Waited(d) ==
    IF now + d <= MaxTime
    THEN /\ now' = now + d
         /\ start_time' = start_time
    ELSE /\ now' = MaxTime
         /\ start_time' = IF MaxTime - start_time > MaxWait
                          THEN start_time
                          ELSE start_time - (now + d - MaxTime)

Return(value) ==
    /\ pc' = "returned"
    /\ result' = value
    /\ exc' = exc

Raise(e) ==
    /\ pc' = "raised"
    /\ exc' = e
    /\ result' = result

Goto(label) ==
    /\ pc' = label
    /\ exc' = exc
    /\ result' = result

(* ------------------------------ environment ---------------------------- *)

\* Time passes while the lifecycle runs, also inside and between its calls.
Tick ==
    /\ ~Ended
    /\ now < MaxTime
    /\ now' = now + 1
    /\ UNCHANGED <<args, peer, locals, pc, exc, result, venue, calls, fills, polls>>

VenueFill ==
    \E id \in DOMAIN venue : \E s \in FillStatuses :
        /\ venue_rule = "any"
        /\ venue[id] \in LiveStatuses
        /\ venue' = [venue EXCEPT ![id] = s]
        /\ fills' = Logged(fills, [id |-> id, at |-> now, polls |-> QueriesServed(id)])
        /\ UNCHANGED <<args, peer, locals, pc, exc, result, now, calls, polls>>

\* The venue cancels, expires or rejects an order, or reports a status of its own.
VenueChange ==
    \E id \in DOMAIN venue : \E s \in {CanceledStatus, UnknownStatus} :
        /\ venue_rule = "any"
        /\ venue[id] = OpenStatus
        /\ venue' = [venue EXCEPT ![id] = s]
        /\ UNCHANGED <<args, peer, locals, pc, exc, result, now, calls, fills, polls>>

(* ------------------------ sfox_exchange.order_wait --------------------- *)

\* A variant that takes every status but "Started" for a fill.
sfox_IsFilled_not_started(status) == status # "Started"

sfox_IsFilled(status) == status \in {"Filled", "Done"}

\* A variant that times out as soon as the elapsed seconds reach wait_time.
sfox_TimedOut_at_deadline(t, start, wait) == Seconds(t - start) >= wait

\* elapsed whole seconds since start_time exceed wait_time
sfox_TimedOut(t, start, wait) == Seconds(t - start) > wait

\* A variant without the cancel branch.
timeout_policy_never_cancels(c) == IF c = "desc" THEN "adapt" ELSE "continue"

\* A variant that cancels under every value but "desc".
timeout_policy_cancels_unless_adapt(c) == IF c = "desc" THEN "adapt" ELSE "cancel"

\* if cancellation == "c": cancel ... elif cancellation == "desc": adapt ... else: continue
timeout_policy(c) ==
    IF c = "c" THEN "cancel" ELSE IF c = "desc" THEN "adapt" ELSE "continue"

\* A variant that submits a second time when the first submit raises.
sfox_order_wait_post_retry ==
    /\ pc = "ow_post"
    /\ \/ /\ venue' = Append(venue, OpenStatus)
          /\ order' = [id |-> Len(venue) + 1, status |-> OpenStatus]
          /\ calls' = Logged(calls, Call("submit", Len(venue) + 1, price, "ok", ""))
          /\ Goto("ow_start")
       \/ /\ order' = ErrorBody
          /\ calls' = Logged(calls, Call("submit", NoId, price, "error", ""))
          /\ Goto("ow_start")
          /\ venue' = venue
       \/ /\ calls' = Logged(calls, Call("submit", NoId, price, "raise", ""))
          /\ IF Len(calls) = 0 THEN Goto("ow_post") ELSE Raise("ConnectionError")
          /\ UNCHANGED <<order, venue>>
    /\ UNCHANGED <<args, peer, price, cancel_id, stop_price, multiplier, new_order,
                   query, start_time, now, fills, polls>>

\* order = requests.post(.../orders/{side}, json={..., "price": price}).json()
sfox_order_wait_post ==
    /\ pc = "ow_post"
    /\ \/ /\ venue' = Append(venue, OpenStatus)
          /\ order' = [id |-> Len(venue) + 1, status |-> OpenStatus]
          /\ calls' = Logged(calls, Call("submit", Len(venue) + 1, price, "ok", ""))
          /\ Goto("ow_start")
       \/ /\ order' = ErrorBody
          /\ calls' = Logged(calls, Call("submit", NoId, price, "error", ""))
          /\ Goto("ow_start")
          /\ venue' = venue
       \/ /\ calls' = Logged(calls, Call("submit", NoId, price, "raise", ""))
          /\ Raise("ConnectionError")
          /\ UNCHANGED <<order, venue>>
    /\ UNCHANGED <<args, peer, price, cancel_id, stop_price, multiplier, new_order,
                   query, start_time, now, fills, polls>>

\* start_time = datetime.datetime.now()
sfox_order_wait_start ==
    /\ pc = "ow_start"
    /\ start_time' = now
    /\ Goto("ow_sleep")
    /\ UNCHANGED <<args, peer, price, cancel_id, stop_price, multiplier, order,
                   new_order, query, now, venue, calls, fills, polls>>

\* await asyncio.sleep(1)
sfox_order_wait_sleep ==
    /\ pc = "ow_sleep"
    /\ CanWait(1)
    /\ Waited(1)
    /\ Goto("ow_get")
    /\ UNCHANGED <<args, peer, frame, venue, calls, fills, polls>>

\* query = requests.get(f".../orders/{order['id']}").json()
sfox_order_wait_get ==
    /\ pc = "ow_get"
    /\ IF order.id = NoId
       THEN /\ Raise("KeyError")
            /\ UNCHANGED <<query, calls>>
       ELSE \/ /\ query' = [id |-> order.id, status |-> venue[order.id]]
               /\ calls' = Logged(calls,
                      Call("query", order.id, RZero, "ok", venue[order.id]))
               /\ Goto("ow_check")
            \/ /\ query' = ErrorBody
               /\ calls' = Logged(calls, Call("query", order.id, RZero, "error", ""))
               /\ Goto("ow_check")
            \/ /\ calls' = Logged(calls, Call("query", order.id, RZero, "raise", ""))
               /\ Raise("ConnectionError")
               /\ query' = query
    /\ UNCHANGED <<args, peer, price, cancel_id, stop_price, multiplier, order,
                   new_order, start_time, now, venue, fills, polls>>

\* if query['status'] in ["Filled", "Done"] ... elif (now - start_time).seconds > wait_time
sfox_order_wait_check ==
    /\ pc = "ow_check"
    /\ IF query.status = MissingKey
       THEN /\ Raise("KeyError")
            /\ UNCHANGED <<cancel_id, polls>>
       ELSE IF sfox_IsFilled(query.status)
       THEN /\ Return(query)
            /\ polls' = Logged(polls, [status |-> query.status,
                   elapsed |-> now - start_time, timeout |-> FALSE])
            /\ cancel_id' = cancel_id
       ELSE IF sfox_TimedOut(now, start_time, wait_time)
       THEN /\ cancel_id' = order.id
            /\ polls' = Logged(polls, [status |-> query.status,
                   elapsed |-> now - start_time, timeout |-> TRUE])
            /\ IF timeout_policy(cancellation) = "cancel" THEN Goto("ow_delete")
               \* order_adapting_price takes five arguments and is given six
               ELSE IF timeout_policy(cancellation) = "adapt" THEN Raise("TypeError")
               ELSE Return(query)
       ELSE /\ Goto("ow_sleep")
            /\ polls' = Logged(polls, [status |-> query.status,
                   elapsed |-> now - start_time, timeout |-> FALSE])
            /\ cancel_id' = cancel_id
    /\ UNCHANGED <<args, peer, price, stop_price, multiplier, order, new_order, query,
                   start_time, now, venue, calls, fills>>

\* cancel = requests.delete(.../orders, params={"ids": cancel_id}).json(); return query
sfox_order_wait_delete ==
    /\ pc = "ow_delete"
    /\ \/ /\ venue' = VenueCancel(venue, cancel_id)
          /\ calls' = Logged(calls, Call("cancel", cancel_id, RZero, "ok", ""))
          /\ Return(query)
       \/ /\ calls' = Logged(calls, Call("cancel", cancel_id, RZero, "raise", ""))
          /\ Raise("ConnectionError")
          /\ venue' = venue
    /\ UNCHANGED <<args, peer, locals, now, fills, polls>>

(* ------------------------ BinanceExchange.order_wait ------------------- *)

\* A variant that takes every status but "NEW" for a fill.
binance_IsFilled_not_new(status) == status # "NEW"

binance_IsFilled(status) == status = "FILLED"

\* order = self.exchange.create_order(symbol, order_type, side, quantity)
binance_order_wait_create ==
    /\ pc = "bw_create"
    /\ \/ /\ venue' = Append(venue, OpenStatus)
          /\ order' = [id |-> Len(venue) + 1, status |-> OpenStatus]
          /\ calls' = Logged(calls, Call("submit", Len(venue) + 1, price, "ok", ""))
          /\ Goto("bw_fetch")
       \/ /\ calls' = Logged(calls, Call("submit", NoId, price, "raise", ""))
          /\ Raise("AuthenticationError")
          /\ UNCHANGED <<order, venue>>
    /\ UNCHANGED <<args, peer, price, cancel_id, stop_price, multiplier, new_order,
                   query, start_time, now, fills, polls>>

\* query_order = self.exchange.fetch_order(order['id'], symbol=symbol)
binance_order_wait_fetch ==
    /\ pc = "bw_fetch"
    /\ \/ /\ query' = [id |-> order.id, status |-> venue[order.id]]
          /\ calls' = Logged(calls,
                 Call("query", order.id, RZero, "ok", venue[order.id]))
          /\ Goto("bw_check")
       \/ /\ calls' = Logged(calls, Call("query", order.id, RZero, "raise", ""))
          /\ Raise("NetworkError")
          /\ query' = query
    /\ UNCHANGED <<args, peer, price, cancel_id, stop_price, multiplier, order,
                   new_order, start_time, now, venue, fills, polls>>

\* if query_order["info"]["status"] == "FILLED": return query_order
binance_order_wait_check ==
    /\ pc = "bw_check"
    /\ IF binance_IsFilled(query.status)
       THEN Return(query)
       ELSE Goto("bw_sleep")
    /\ polls' = Logged(polls, [status |-> query.status,
           elapsed |-> now - start_time, timeout |-> FALSE])
    /\ UNCHANGED <<args, peer, locals, now, venue, calls, fills>>

\* time.sleep(1)
binance_order_wait_sleep ==
    /\ pc = "bw_sleep"
    /\ CanWait(1)
    /\ Waited(1)
    /\ Goto("bw_fetch")
    /\ UNCHANGED <<args, peer, frame, venue, calls, fills, polls>>

(* -------------------- sfox_exchange.order_adapting_price --------------- *)

\* A variant with the two sides' factors exchanged.
price_adjustment_swapped(s, pa) == IF s = "buy" THEN RSub(ROne, pa) ELSE RAdd(ROne, pa)

\* A variant that leaves the price as it is.
price_adjustment_none(s, pa) == ROne

\* price_adjustment = 1 + percent_adjustment if side == "buy" else 1 - percent_adjustment
price_adjustment(s, pa) == IF s = "buy" THEN RAdd(ROne, pa) ELSE RSub(ROne, pa)

\* cancel = requests.delete(.../orders, params={"ids": cancel_id}).json()
order_adapting_price_delete ==
    /\ pc = "ap_delete"
    /\ \/ /\ venue' = VenueCancel(venue, cancel_id)
          /\ calls' = Logged(calls, Call("cancel", cancel_id, RZero, "ok", ""))
          /\ Goto("ap_post")
       \/ /\ calls' = Logged(calls, Call("cancel", cancel_id, RZero, "raise", ""))
          /\ Raise("ConnectionError")
          /\ venue' = venue
    /\ UNCHANGED <<args, peer, locals, now, fills, polls>>

\* Another iteration is modelled: the run is bounded by the clock, or the price
\* is no finer than 1/MaxDen.
CanAdapt == unbounded => price.d <= MaxDen

\* price *= price_adjustment; new_order = requests.post(..., json={..., "price": price}).json()
order_adapting_price_post ==
    /\ pc = "ap_post"
    /\ CanAdapt
    /\ price' = RMul(price, price_adjustment(side, percent_adjustment))
    /\ \/ /\ venue' = Accepted(venue, NewOrderStatus(side, price'))
          /\ new_order' = [id |-> Len(venue'), status |-> OpenStatus]
          /\ calls' = Logged(calls, Call("submit", Len(venue'), price', "ok", ""))
          /\ Goto("ap_sleep")
       \/ /\ new_order' = ErrorBody
          /\ calls' = Logged(calls, Call("submit", NoId, price', "error", ""))
          /\ Goto("ap_sleep")
          /\ venue' = venue
       \/ /\ calls' = Logged(calls, Call("submit", NoId, price', "raise", ""))
          /\ Raise("ConnectionError")
          /\ UNCHANGED <<new_order, venue>>
    /\ UNCHANGED <<args, peer, cancel_id, stop_price, multiplier, order, query,
                   start_time, now, fills, polls>>

\* await asyncio.sleep(2)
order_adapting_price_sleep ==
    /\ pc = "ap_sleep"
    /\ CanWait(2)
    /\ Waited(2)
    /\ Goto("ap_get")
    /\ UNCHANGED <<args, peer, frame, venue, calls, fills, polls>>

\* query = requests.get(f".../orders/{new_order['id']}").json()
order_adapting_price_get ==
    /\ pc = "ap_get"
    /\ IF new_order.id = NoId
       THEN /\ Raise("KeyError")
            /\ UNCHANGED <<query, calls>>
       ELSE \/ /\ query' = [id |-> new_order.id, status |-> venue[new_order.id]]
               /\ calls' = Logged(calls,
                      Call("query", new_order.id, RZero, "ok", venue[new_order.id]))
               /\ Goto("ap_check")
            \/ /\ query' = ErrorBody
               /\ calls' = Logged(calls,
                      Call("query", new_order.id, RZero, "error", ""))
               /\ Goto("ap_check")
            \/ /\ calls' = Logged(calls,
                      Call("query", new_order.id, RZero, "raise", ""))
               /\ Raise("ConnectionError")
               /\ query' = query
    /\ UNCHANGED <<args, peer, price, cancel_id, stop_price, multiplier, order,
                   new_order, start_time, now, venue, fills, polls>>

\* A variant that keeps the cancel_id it was called with.
order_adapting_price_check_keeps_id ==
    /\ pc = "ap_check"
    /\ cancel_id' = cancel_id
    /\ IF query.status = MissingKey
       THEN Raise("KeyError")
       ELSE IF sfox_IsFilled(query.status)
       THEN Return(query)
       ELSE Goto("ap_delete")
    /\ UNCHANGED <<args, peer, price, stop_price, multiplier, order, new_order, query,
                   start_time, now, venue, calls, fills, polls>>

\* cancel_id = new_order["id"]; if query['status'] in ["Filled", "Done"]: return query
order_adapting_price_check ==
    /\ pc = "ap_check"
    /\ cancel_id' = new_order.id
    /\ IF query.status = MissingKey
       THEN Raise("KeyError")
       ELSE IF sfox_IsFilled(query.status)
       THEN Return(query)
       ELSE Goto("ap_delete")
    /\ UNCHANGED <<args, peer, price, stop_price, multiplier, order, new_order, query,
                   start_time, now, venue, calls, fills, polls>>

(* -------------------------- BinanceExchange.set_stop ------------------- *)

\* multiplier = 1 + adjustment if side == "buy" else 1 - adjustment
set_stop_multiplier(s, adj) == IF s = "buy" THEN RAdd(ROne, adj) ELSE RSub(ROne, adj)

set_stop_start ==
    /\ pc = "ss_start"
    /\ multiplier' = set_stop_multiplier(side, adjustment)
    /\ Goto("ss_create")
    /\ UNCHANGED <<args, peer, price, cancel_id, stop_price, order, new_order, query,
                   start_time, now, venue, calls, fills, polls>>

\* Another attempt of set_stop is modelled: the attempts are counted and fewer
\* than MaxAttempts, or they are not counted and the trigger price is no finer
\* than 1/MaxDen.
CanTry == IF unbounded THEN stop_price.d <= MaxDen ELSE NumCalls("submit") < MaxAttempts

\* A variant whose except clause catches every exception.
set_stop_create_catch_all ==
    /\ pc = "ss_create"
    /\ NumCalls("submit") < MaxAttempts
    /\ \/ /\ venue' = Append(venue, OpenStatus)
          /\ order' = [id |-> Len(venue) + 1, status |-> OpenStatus]
          /\ calls' = Logged(calls,
                 Call("submit", Len(venue) + 1, stop_price, "ok", ""))
          /\ Return(order')
       \/ \E res \in {"OrderImmediatelyFillable", "raise"} :
          /\ calls' = Logged(calls, Call("submit", NoId, stop_price, res, ""))
          /\ Goto("ss_except")
          /\ UNCHANGED <<order, venue>>
    /\ UNCHANGED <<args, peer, price, cancel_id, stop_price, multiplier, new_order,
                   query, start_time, now, fills, polls>>

\* try: order = createOrder(..., params={"stopPrice": stop_price})
\* except OrderImmediatelyFillable: ..   else: return order
set_stop_create ==
    /\ pc = "ss_create"
    /\ CanTry
    /\ \/ /\ venue_rule = "any" \/ ~ImmediatelyFillable(side, stop_price)
          /\ venue' = Append(venue, OpenStatus)
          /\ order' = [id |-> Len(venue) + 1, status |-> OpenStatus]
          /\ calls' = Logged(calls,
                 Call("submit", Len(venue) + 1, stop_price, "ok", ""))
          /\ Return(order')
       \/ /\ venue_rule = "any" \/ ImmediatelyFillable(side, stop_price)
          /\ calls' = Logged(calls,
                 Call("submit", NoId, stop_price, "OrderImmediatelyFillable", ""))
          /\ Goto("ss_except")
          /\ UNCHANGED <<order, venue>>
       \/ /\ calls' = Logged(calls, Call("submit", NoId, stop_price, "raise", ""))
          /\ Raise("InsufficientFunds")
          /\ UNCHANGED <<order, venue>>
    /\ UNCHANGED <<args, peer, price, cancel_id, stop_price, multiplier, new_order,
                   query, start_time, now, fills, polls>>

\* except ccxt.errors.OrderImmediatelyFillable: stop_price *= multiplier
set_stop_except ==
    /\ pc = "ss_except"
    /\ stop_price' = RMul(stop_price, multiplier)
    /\ Goto("ss_create")
    /\ UNCHANGED <<args, peer, price, cancel_id, multiplier, order, new_order, query,
                   start_time, now, venue, calls, fills, polls>>

(* ----------------------------- specification --------------------------- *)

Entry(p) ==
    CASE p = "binance.order_wait" -> "bw_create"
      [] p = "binance.set_stop" -> "ss_start"
      [] p = "sfox.order_wait" -> "ow_post"
      [] p = "sfox.order_adapting_price" -> "ap_delete"

Start ==
    /\ proc \in Procs
    /\ pc = Entry(proc)
    /\ exc = "none"
    /\ result = NoResponse
    /\ side \in (IF proc = "binance.set_stop" THEN StopSides
                 ELSE IF proc = "binance.order_wait" THEN {"BUY"}
                 ELSE SfoxSides)
    /\ wait_time \in (IF proc = "sfox.order_wait" THEN WaitTimes ELSE {0})
    /\ cancellation \in (IF proc = "sfox.order_wait" THEN Cancellations ELSE {"c"})
    /\ price \in (IF proc \in {"sfox.order_wait", "sfox.order_adapting_price"}
                  THEN Prices ELSE {RZero})
    /\ price_arg = price
    /\ percent_adjustment \in (IF proc = "sfox.order_adapting_price"
                               THEN Adjustments ELSE {RZero})
    /\ stop_price \in (IF proc = "binance.set_stop" THEN Prices ELSE {RZero})
    /\ adjustment \in (IF proc = "binance.set_stop" THEN Adjustments ELSE {RZero})
    /\ multiplier = ROne
    \* order_adapting_price is handed the id of an order placed before it
    /\ cancel_id = IF proc = "sfox.order_adapting_price" THEN 1 ELSE NoId
    /\ venue \in (IF proc = "sfox.order_adapting_price"
                  THEN {<<s>> : s \in {OpenStatus, "Filled"}}
                  ELSE {<<>>})
    /\ order = NoResponse
    /\ new_order = NoResponse
    /\ query = NoResponse
    /\ start_time = 0
    /\ now = 0
    /\ calls = <<>>
    /\ fills = <<>>
    /\ polls = <<>>
    /\ peer = 0

\* One lifecycle up to MaxTime, with its history, against a venue that acts freely.
Init ==
    /\ Start
    /\ unbounded = FALSE
    /\ venue_rule = "any"
    /\ threshold = RZero

Next ==
    \/ Tick
    \/ VenueFill
    \/ VenueChange
    \/ sfox_order_wait_post
    \/ sfox_order_wait_start
    \/ sfox_order_wait_sleep
    \/ sfox_order_wait_get
    \/ sfox_order_wait_check
    \/ sfox_order_wait_delete
    \/ binance_order_wait_create
    \/ binance_order_wait_fetch
    \/ binance_order_wait_check
    \/ binance_order_wait_sleep
    \/ order_adapting_price_delete
    \/ order_adapting_price_post
    \/ order_adapting_price_sleep
    \/ order_adapting_price_get
    \/ order_adapting_price_check
    \/ set_stop_start
    \/ set_stop_create
    \/ set_stop_except

Spec == Init /\ [][Next]_vars

(* ------------------------- the unbounded lifecycle ---------------------- *)

Markets == {Rat(m, 2) : m \in 1..MaxMarket}

\* The thread is free for another lifecycle: this one is suspended in
\* await asyncio.sleep(..), or has ended. In time.sleep(1) and in the requests
\* and ccxt calls it holds the thread.
LoopFree == pc \in {"ow_sleep", "ap_sleep"} \/ Ended

\* Another lifecycle of the same process takes a step.
peer_step ==
    /\ LoopFree
    /\ peer' = 1 - peer
    /\ UNCHANGED <<args, locals, pc, exc, result, now, venue, calls, fills, polls>>

\* The steps of the lifecycle itself.
Controller ==
    \/ sfox_order_wait_post
    \/ sfox_order_wait_start
    \/ sfox_order_wait_sleep
    \/ sfox_order_wait_get
    \/ sfox_order_wait_check
    \/ sfox_order_wait_delete
    \/ binance_order_wait_create
    \/ binance_order_wait_fetch
    \/ binance_order_wait_check
    \/ binance_order_wait_sleep
    \/ order_adapting_price_delete
    \/ order_adapting_price_post
    \/ order_adapting_price_sleep
    \/ order_adapting_price_get
    \/ order_adapting_price_check
    \/ set_stop_start
    \/ set_stop_create
    \/ set_stop_except

\* One lifecycle without a bound on its polls: order_wait against a venue that
\* acts freely, order_adapting_price and set_stop against a venue that follows
\* its threshold.
LiveInit ==
    /\ Start
    /\ unbounded = TRUE
    /\ venue_rule = IF proc \in {"sfox.order_adapting_price", "binance.set_stop"}
                    THEN "threshold" ELSE "any"
    /\ threshold \in (IF venue_rule = "threshold" THEN Markets ELSE {RZero})

LiveNext == Next \/ peer_step

\* Every gateway call returns and every sleep ends: the lifecycle keeps stepping.
LiveSpec == LiveInit /\ [][LiveNext]_vars /\ WF_vars(Controller)

(* ------------------------------- properties ---------------------------- *)

Queries == CallsOf("query")
Cancels == CallsOf("cancel")
Submits == CallsOf("submit")
LastQuery == Queries[Len(Queries)]

\* No status query has reported Filled, Done or FILLED.
NoFillReported == \A i \in 1..Len(calls) : calls[i].status \notin AllFillStatuses

\* The timeout policy of sfox order_wait has been applied.
PolicyApplied == \E i \in 1..Len(polls) : polls[i].timeout

\* The venue's fills of the order that order_wait submitted.
OrderFills == {i \in 1..Len(fills) : fills[i].id = order.id}

\* C1: in sfox order_wait with cancellation "c", when no status query reports
\* Filled or Done, at most one cancel is ever issued, it targets the id of the
\* submitted order, and a lifecycle that returns has issued exactly one cancel
\* and returns the result of its last status query, which is not Filled or Done.
C1_CancelOnTimeout ==
    (proc = "sfox.order_wait" /\ cancellation = "c" /\ NoFillReported) =>
        /\ Len(Cancels) <= 1
        /\ \A i \in 1..Len(Cancels) :
              Cancels[i].id = order.id /\ order.id # NoId
        /\ pc = "returned" =>
              /\ Len(Cancels) = 1
              /\ Len(Queries) >= 1
              /\ result.id = LastQuery.id
              /\ result.status = LastQuery.status
              /\ result.status \notin AllFillStatuses

C1_Witness ==
    /\ proc = "sfox.order_wait"
    /\ cancellation = "c"
    /\ pc = "returned"
    /\ NoFillReported
    /\ Len(Cancels) = 1
    /\ Len(Queries) >= 2

\* C2: in order_wait, when the venue fills the order before wait_time seconds
\* have passed since submission, the lifecycle that returns returns the filled
\* query result and has issued no cancel.
C2_FillBeforeMaxWait ==
    (/\ proc = "sfox.order_wait"
     /\ pc = "returned"
     /\ \E i \in OrderFills : fills[i].at - start_time < wait_time) =>
        /\ result.status \in FillStatuses
        /\ Len(Cancels) = 0

\* C3 as stated: in both order_wait implementations, when the venue fills the
\* order after N-1 status queries (so that the N-th reports it filled), the
\* lifecycle that returns has made exactly N status queries and no cancel and
\* returns the filled order.
C3_ExactlyNPolls_AsStated ==
    (/\ proc \in {"binance.order_wait", "sfox.order_wait"}
     /\ pc = "returned") =>
        \A i \in OrderFills :
            /\ Len(Queries) = fills[i].polls + 1
            /\ Len(Cancels) = 0
            /\ result.id = order.id
            /\ result.status \in FillStatuses

\* C3 as amended: the same, for Binance order_wait always, and for sfox
\* order_wait when the timeout policy was applied at none of its polls.
C3_ExactlyNPolls ==
    (/\ proc \in {"binance.order_wait", "sfox.order_wait"}
     /\ pc = "returned"
     /\ ~PolicyApplied) =>
        \A i \in OrderFills :
            /\ Len(Queries) = fills[i].polls + 1
            /\ Len(Cancels) = 0
            /\ result.id = order.id
            /\ result.status \in FillStatuses

\* The venue fills on the third poll: three queries, then the filled order.
C3_Witness ==
    /\ proc = "binance.order_wait"
    /\ pc = "returned"
    /\ \E i \in OrderFills : fills[i].polls = 2
    /\ Len(Queries) = 3

\* C4: when the submit call of order_wait fails, that is the only gateway call
\* of the lifecycle (one submit, no status query, no cancel), the lifecycle
\* never returns a value, and a raised failure ends it at once.
C4_SubmitFailure ==
    (/\ proc \in {"binance.order_wait", "sfox.order_wait"}
     /\ Len(calls) >= 1
     /\ calls[1].res # "ok") =>
        /\ calls[1].op = "submit"
        /\ Len(Submits) = 1
        /\ Len(Queries) = 0
        /\ Len(Cancels) = 0
        /\ pc # "returned"
        /\ calls[1].res = "raise" => (pc = "raised" /\ exc # "none")

C4_Witness ==
    /\ proc = "sfox.order_wait"
    /\ pc = "raised"
    /\ Len(calls) = 1
    /\ calls[1].op = "submit"
    /\ calls[1].res = "raise"

\* The price before the k-th submitted order's: the price passed in, for the first.
PriceBefore(k) == IF k = 1 THEN price_arg ELSE Submits[k - 1].price

\* C5 as stated: in order_adapting_price with percent_adjustment >= 0, the
\* price of the k-th submitted order is the previous price times
\* (1 + percent_adjustment) for buy and times (1 - percent_adjustment) for sell,
\* and the submitted prices never decrease for buy and never increase for sell.
C5_PriceMonotonic_AsStated ==
    (proc = "sfox.order_adapting_price" /\ RLeq(RZero, percent_adjustment)) =>
        \A k \in 1..Len(Submits) :
            /\ side = "buy" =>
                  /\ Submits[k].price =
                         RMul(PriceBefore(k), RAdd(ROne, percent_adjustment))
                  /\ RLeq(PriceBefore(k), Submits[k].price)
            /\ side = "sell" =>
                  /\ Submits[k].price =
                         RMul(PriceBefore(k), RSub(ROne, percent_adjustment))
                  /\ RLeq(Submits[k].price, PriceBefore(k))

\* C5 as amended: the same factors; for a positive starting price the submitted
\* prices never decrease for buy, and never increase for sell when
\* percent_adjustment is at most 1.
C5_PriceMonotonic ==
    (/\ proc = "sfox.order_adapting_price"
     /\ RLeq(RZero, percent_adjustment)
     /\ RLt(RZero, price_arg)) =>
        \A k \in 1..Len(Submits) :
            /\ side = "buy" =>
                  /\ Submits[k].price =
                         RMul(PriceBefore(k), RAdd(ROne, percent_adjustment))
                  /\ RLeq(PriceBefore(k), Submits[k].price)
            /\ side = "sell" =>
                  /\ Submits[k].price =
                         RMul(PriceBefore(k), RSub(ROne, percent_adjustment))
                  /\ RLeq(percent_adjustment, ROne) =>
                         RLeq(Submits[k].price, PriceBefore(k))

C5_Witness ==
    /\ proc = "sfox.order_adapting_price"
    /\ side = "sell"
    /\ percent_adjustment = Rat(1, 2)
    /\ Len(Submits) = 2
    /\ RLt(Submits[2].price, Submits[1].price)

\* The trigger price tried after the k-th createOrder attempt.
TriggerAfter(k) == IF k < Len(Submits) THEN Submits[k + 1].price ELSE stop_price

\* The k-th attempt's rejection has been handled: the handler has run.
Handled(k) == k < Len(Submits) \/ pc # "ss_except"

\* C6: in set_stop, after every immediate-fill rejection the next trigger price
\* is the rejected one times (1 + adjustment) for a buy order, in either
\* spelling of the side, and times (1 - adjustment) for a sell order; a buy
\* trigger never moves down and a sell trigger never moves up.
C6_StopPriceDiverges ==
    proc = "binance.set_stop" =>
        \A k \in 1..Len(Submits) :
            (Submits[k].res = "OrderImmediatelyFillable" /\ Handled(k)) =>
                IF IsBuySide(side)
                THEN /\ TriggerAfter(k) =
                            RMul(Submits[k].price, RAdd(ROne, adjustment))
                     /\ RLeq(Submits[k].price, TriggerAfter(k))
                ELSE /\ TriggerAfter(k) =
                            RMul(Submits[k].price, RSub(ROne, adjustment))
                     /\ RLeq(TriggerAfter(k), Submits[k].price)

\* C7: in set_stop, a createOrder failure other than the immediate-fill
\* rejection is the last gateway call of the lifecycle: it ends the lifecycle
\* with that failure and leaves the trigger price as it was at that attempt.
C7_OtherRejectionFatal ==
    proc = "binance.set_stop" =>
        \A i \in 1..Len(calls) :
            calls[i].res = "raise" =>
                /\ i = Len(calls)
                /\ pc = "raised"
                /\ exc = "InsufficientFunds"
                /\ stop_price = calls[i].price

\* Failing after an immediate-fill rejection has moved the trigger price.
C7_Witness ==
    /\ proc = "binance.set_stop"
    /\ pc = "raised"
    /\ Len(calls) = 2
    /\ calls[1].res = "OrderImmediatelyFillable"
    /\ calls[2].res = "raise"
    /\ stop_price # calls[1].price

AdaptingPcs == {"ap_delete", "ap_post", "ap_sleep", "ap_get", "ap_check"}

\* C8: in sfox order_wait with cancellation "desc", once the timeout policy has
\* been applied the controller is in the price-adapting procedure, entered with
\* the timed-out order's id as cancel_id and the step 0.005, and the lifecycle
\* returns only a Filled or Done order.
C8_AdaptOnTimeout ==
    (proc = "sfox.order_wait" /\ cancellation = "desc" /\ PolicyApplied) =>
        /\ pc \in AdaptingPcs \cup {"returned", "raised"}
        /\ exc # "TypeError"
        /\ percent_adjustment = Rat(1, 200)
        /\ Len(Cancels) >= 1 => Cancels[1].id = order.id
        /\ pc = "returned" => result.status \in FillStatuses

\* C9: in sfox order_wait with a cancellation other than "c" and "desc", no
\* cancel is ever issued, and a lifecycle that returns after the timeout
\* returns the result of its last status query.
C9_ContinueOnTimeout ==
    (proc = "sfox.order_wait" /\ cancellation \notin {"c", "desc"}) =>
        /\ Len(Cancels) = 0
        /\ (pc = "returned" /\ PolicyApplied) =>
              /\ result.id = order.id
              /\ result.id = LastQuery.id
              /\ result.status = LastQuery.status
              /\ result.status \notin AllFillStatuses

C9_Witness ==
    /\ proc = "sfox.order_wait"
    /\ cancellation = "k"
    /\ pc = "returned"
    /\ PolicyApplied
    /\ venue[order.id] = "Started"

CheckPcs == {"ow_check", "bw_check", "ap_check"}

\* Where each poll loop goes on to its next poll.
NextPoll(label) ==
    CASE label = "ow_check" -> "ow_sleep"
      [] label = "bw_check" -> "bw_sleep"
      [] label = "ap_check" -> "ap_delete"

\* C10: in each poll loop, evaluating a query whose status is none of the
\* recognized ones neither returns nor fails: the controller goes on to the
\* next poll, unless sfox order_wait has timed out at that poll.
C10_UnknownStatusKeepsPolling ==
    [][(/\ pc \in CheckPcs
        /\ pc' # pc
        /\ query.status = UnknownStatus
        /\ ~(pc = "ow_check" /\ (now - start_time) % SecondsPerDay > wait_time))
       => (pc' = NextPoll(pc) /\ exc' = "none" /\ result' = result)]_vars

C10_Witness ==
    /\ proc = "sfox.order_adapting_price"
    /\ pc = "ap_delete"
    /\ Len(Queries) = 1
    /\ LastQuery.status = "Unknown"

OrderWaits == {"binance.order_wait", "sfox.order_wait"}

\* The i-th gateway call failed, and the call before it did not.
FirstFailure(i) ==
    /\ calls[i].res = "raise"
    /\ i = 1 \/ calls[i - 1].res # "raise"

\* C11: in order_wait a status query or cancel call that fails, after a call
\* that did not fail, does not end the lifecycle: the lifecycle fails only after several
\* consecutive failures.
C11_TransientFailureRetried ==
    proc \in OrderWaits =>
        \A i \in 1..Len(calls) :
            (calls[i].op \in {"query", "cancel"} /\ FirstFailure(i)) =>
                ~(i = Len(calls) /\ pc = "raised")

\* C12: every order_wait call, of Binance and of sfox with a cancellation other
\* than "desc", eventually ends, whatever the venue does with the order.
C12_OrderWaitReturns ==
    (proc \in OrderWaits /\ cancellation # "desc") => <>Ended

SleepPcs == {"bw_sleep", "ow_sleep", "ap_sleep"}

\* C13: while the lifecycle waits between two polls, in Binance order_wait, sfox
\* order_wait and order_adapting_price alike, another lifecycle of the process
\* can take a step.
C13_WaitsYield == pc \in SleepPcs => ENABLED peer_step

\* The gateway call that order_adapting_price makes in the i-th place.
AdaptingCall(i) ==
    CASE i % 3 = 1 -> "cancel"
      [] i % 3 = 2 -> "submit"
      [] OTHER -> "query"

\* C14: order_adapting_price makes its gateway calls in the order cancel,
\* submit, query, iteration after iteration, and waits its two seconds between
\* the submit and the query; the first cancel targets the cancel_id passed in
\* (the order 1) and every later one the order submitted in the iteration
\* before, so that no id is cancelled twice; each query asks for the order just
\* submitted; and the procedure returns only the Filled or Done result of its
\* last query, for an order it has sent no cancel for.
C14_AdaptingIteration ==
    /\ [](proc = "sfox.order_adapting_price" =>
            /\ \A i \in 1..Len(calls) : calls[i].op = AdaptingCall(i)
            /\ \A k \in 1..Len(Cancels) :
                  Cancels[k].id = IF k = 1 THEN 1 ELSE Submits[k - 1].id
            /\ \A j, k \in 1..Len(Cancels) : j # k => Cancels[j].id # Cancels[k].id
            /\ \A k \in 1..Len(Queries) : Queries[k].id = Submits[k].id
            /\ pc = "returned" =>
                  /\ Len(calls) >= 3
                  /\ calls[Len(calls)].op = "query"
                  /\ calls[Len(calls)].status \in {"Filled", "Done"}
                  /\ result.id = calls[Len(calls)].id
                  /\ result.status = calls[Len(calls)].status
                  /\ \A k \in 1..Len(Cancels) : Cancels[k].id # result.id)
    /\ [][(pc = "ap_sleep" /\ pc' # pc) =>
              (pc' = "ap_get" /\ now' = now + 2 /\ calls' = calls)]_vars

\* Two iterations: the first order is cancelled, the second is returned filled.
C14_Witness ==
    /\ proc = "sfox.order_adapting_price"
    /\ pc = "returned"
    /\ Len(Cancels) = 2
    /\ Len(Submits) = 2
    /\ Cancels[2].id = Submits[1].id
    /\ result.id = Submits[2].id

\* C15: order_adapting_price with percent_adjustment > 0, against a venue that
\* fills a buy order priced at or above its threshold and a sell order priced
\* at or below it, eventually returns a Filled or Done order, unless a gateway
\* call fails.
C15_AdaptingEventuallyFills ==
    (proc = "sfox.order_adapting_price" /\ percent_adjustment.n > 0) =>
        <>(\/ pc = "raised"
           \/ pc = "returned" /\ result.status \in {"Filled", "Done"})

\* A buy that is filled at more than twice the price it started from.
C15_Witness ==
    /\ proc = "sfox.order_adapting_price"
    /\ side = "buy"
    /\ percent_adjustment = Rat(1, 2)
    /\ pc = "returned"
    /\ result.status = "Filled"
    /\ RLt(RMul(Rat(2, 1), price_arg), price)

\* C16: set_stop with adjustment > 0, against a venue that rejects a buy stop
\* exactly when its trigger is at or below the market price and a sell stop
\* exactly when it is at or above it, eventually ends with an accepted order
\* (or with another failure of createOrder), for the sides "buy", "sell" and
\* "BUY". Trigger prices finer than 1/MaxDen are left out.
C16_SetStopEventuallyAccepted ==
    (proc = "binance.set_stop" /\ adjustment.n > 0) =>
        <>(Ended \/ stop_price.d > MaxDen)

\* The polls up to the i-th came one second apart, the first one second after
\* start_time.
OneSecondTicks(i) == \A j \in 1..i : polls[j].elapsed = j

\* C17: in sfox order_wait the timeout policy is applied only at a poll whose
\* status is neither Filled nor Done and whose elapsed seconds exceed wait_time.
\* A poll of such a status at elapsed <= wait_time applies no policy and, while
\* it is the last one, neither returns nor cancels; a poll that reports Filled
\* or Done, at any elapsed time, is the last one, applies no policy and returns
\* that result. With polls one second apart the policy is applied at poll
\* wait_time + 1, after as many status queries.
C17_TimeoutOnlyPastDeadline ==
    proc = "sfox.order_wait" =>
        \A i \in 1..Len(polls) :
            /\ polls[i].timeout =>
                  /\ polls[i].status \notin {"Filled", "Done"}
                  /\ polls[i].elapsed > wait_time
                  /\ i = Len(polls)
                  /\ OneSecondTicks(i) => (i = wait_time + 1 /\ Len(Queries) = i)
            /\ (polls[i].status \notin {"Filled", "Done"}
                   /\ polls[i].elapsed <= wait_time) =>
                  /\ ~polls[i].timeout
                  /\ i = Len(polls) => (pc # "returned" /\ Len(Cancels) = 0)
            /\ polls[i].status \in {"Filled", "Done"} =>
                  /\ ~polls[i].timeout
                  /\ i = Len(polls)
                  /\ pc = "returned"
                  /\ result.status = polls[i].status
                  /\ Len(Cancels) = 0

\* wait_time = MaxWait and one-second ticks: the policy cancels at the poll after.
C17_Witness ==
    /\ proc = "sfox.order_wait"
    /\ wait_time = MaxWait
    /\ cancellation = "c"
    /\ Len(polls) = MaxWait + 1
    /\ OneSecondTicks(Len(polls))
    /\ polls[Len(polls)].timeout
    /\ Len(Cancels) = 1

\* The ids of the orders the controller has submitted.
SubmittedIds == {Submits[k].id : k \in {j \in 1..Len(Submits) : Submits[j].res = "ok"}}

\* C18: in one order_adapting_price lifecycle the venue fills at most one of
\* the orders the controller submitted, however its fills fall between the
\* controller's query, cancel and submit calls.
C18_AtMostOneFill ==
    proc = "sfox.order_adapting_price" =>
        Cardinality({i \in 1..Len(fills) : fills[i].id \in SubmittedIds}) <= 1

====
